---- MODULE Spec2Model ----
(***************************************************************************)
(* PublicAutoTrade: the order lifecycle (account/acc.py with the           *)
(* active_positions table), the bar handler of the automatic stream        *)
(* (tradeBot/get_data/schwab_automatic_stream.py), the aggregation of bars *)
(* (tradeBot/functions/aggregateTimeFrames.py) and the token refresher     *)
(* thread (keep_token_alive.py).                                           *)
(*                                                                         *)
(* Prices are integers in units of 1/PriceScale dollar.  A brokerage or    *)
(* database answer is an input of the action that makes the call.          *)
(***************************************************************************)
EXTENDS Integers, Sequences, FiniteSets, TLC

VARIABLES
    active_positions,  \* the active_positions table: rows in insertion order
    nextOrderId,       \* the next order id the brokerage hands out
    calls,             \* the external calls of the last send_strategy_orders
    last,              \* arguments and outcome of the last send_strategy_orders
    df_dict,           \* strategy id -> [df: its bar buffer, itsTime: its latch]
    pc,                \* run_stream: "receiving", "unsubscribed" (receiving
                       \* after a failed resubscribe) or "exited"
    resubscribed,      \* a login and resubscribe after a closure has succeeded
    bar,               \* the last bar item handed to on_bar
    seen,              \* strategy id -> what on_bar did for it on that bar
    handlers,          \* how many times on_bar is registered with the stream
    sup,               \* what the main loop did in its last iteration
    agg,               \* the last call of aggregate_time_frame on its own
    tok,               \* the token refresher thread, the .env file and
                       \* token.json, and the last read of the bar path
    req,               \* the last brokerage request made on its own: the
                       \* function, the response and what was returned
    sched              \* one strategy on a stream of one bar per minute:
                       \* its time frame, the minute of the day of the last
                       \* bar, its latch and what on_bar did on that bar

orderVars == <<active_positions, nextOrderId, calls, last>>
streamVars == <<df_dict, pc, resubscribed, bar, seen, handlers, sup>>
vars == <<active_positions, nextOrderId, calls, last, df_dict, pc, resubscribed,
          bar, seen, handlers, sup, agg, tok, req, sched>>

---------------------------------------------------------------------------
\* Bounds of the model.

\* the brokerage accepts a further order only while it has accepted at most
\* MaxOrders
MaxOrders == 2
\* bars carry the minutes 0..MaxTs
MaxTs == 2
\* the token endpoint issues at most MaxIssued tokens
MaxIssued == 3
\* the buffered stream of one strategy delivers at most MaxBars bars
MaxBars == 8
\* a bar is delivered only while the buffers it goes to hold fewer than
\* MaxBuf bars
MaxBuf == 3
\* on_bar is registered at most MaxHandlers times
MaxHandlers == 2
\* the frames aggregated on their own hold bars of the minutes 0..MaxMinute
MaxMinute == 5
\* and are aggregated to 1..MaxAggregation minutes
MaxAggregation == 3

---------------------------------------------------------------------------
\* Values.

\* one dollar, in price units
PriceScale == 100000

\* send_orders returns None: no order id
NoOrderId == 0

\* the expiry of a closing SELL order, in minutes
SellExpMin == 1440

StrategyIds == {1, 2}

\* "" stands for an absent (None) or empty symbol
OrderSymbols == {"", "SPY"}

\* 0.12345, 12.345, 1.005 and 0.03125 dollars, which lie halfway between
\* two rounded prices
HalfwayPrices == {12345, 1234500, 100500, 3125}

\* 0 (market) and 12.346 dollars
OrderPrices == {0, 1234600}

Quantities == {0, 1}

\* the filled quantities the brokerage reports; the positive one is not in
\* Quantities
FilledQuantities == {0, 2}

Instructions == {"BUY", "sell", "HOLD"}

ExpMins == {5}

\* str.upper() on the instructions above
Upper(s) ==
    CASE s = "buy" -> "BUY"
      [] s = "sell" -> "SELL"
      [] OTHER -> s

\* Where the float of a price of the model lies: above the decimal price
\* (1), below it (-1) or on it (0).  0.12345 and 12.345 are the floats
\* 0.123450000000000004... and 12.3450000000000006..., 1.005 is
\* 1.00499999999999989..., 0.03125 is 2^-5.
FloatSide(p) ==
    CASE p = 12345 -> 1
      [] p = 1234500 -> 1
      [] p = 100500 -> -1
      [] OTHER -> 0

\* round(): the float of p rounded to the nearest multiple of unit, a float
\* on the half to the even multiple (p >= 0).
RoundTo(p, unit) ==
    LET q == p \div unit
        twice == 2 * (p % unit)
        up == \/ twice > unit
              \/ twice = unit /\ FloatSide(p) > 0
              \/ twice = unit /\ FloatSide(p) = 0 /\ q % 2 = 1
    IN IF up THEN (q + 1) * unit ELSE q * unit

\* round_price rounding every price to two decimals.
round_price_two_decimals(price) == RoundTo(price, PriceScale \div 100)

round_price(price) ==
    IF price < PriceScale
    THEN RoundTo(price, PriceScale \div 10000)
    ELSE RoundTo(price, PriceScale \div 100)

---------------------------------------------------------------------------
\* The external world a cycle acts on: the table, the brokerage's id counter
\* and the log of calls made.

World == [active_positions |-> active_positions,
          nextOrderId |-> nextOrderId,
          calls |-> <<>>]

\* One logged call.  op: "post" (place), "get" (status), "cancel",
\* "db_insert", "db_list", "db_delete".  order_id: the id returned (post),
\* looked up (get), cancelled or inserted; src: for a SELL placement, the
\* tracked order it closes.  type/price/cancelTime: the order payload
\* (price -1: no price field; cancelTime 0: no cancelTime field).  For a
\* get, quantity is the filledQuantity answered and qty_null tells a null.
Call(op, order_id, src, instruction, quantity, symbol, type, price, cancelTime, outcome) ==
    [op |-> op, order_id |-> order_id, src |-> src, instruction |-> instruction,
     quantity |-> quantity, qty_null |-> FALSE, symbol |-> symbol, type |-> type,
     price |-> price, cancelTime |-> cancelTime, outcome |-> outcome]

Logged(w, c) == [w EXCEPT !.calls = Append(@, c)]

\* What requests.post can do with an order.
PostOutcomes == {"created", "created_no_location", "unexpected_status",
                 "http_error", "timeout", "connection_error", "exception"}

\* send_orders: [w, order_id, raised].  raised: ValueError before any call.
send_orders(w, quantity, exp_min, price0, symbol, instruction, src, outcome) ==
    IF symbol = "" \/ quantity <= 0
    THEN [w |-> w, order_id |-> NoOrderId, raised |-> TRUE]
    ELSE
      LET price == round_price(price0)
          order_type == IF price = 0 THEN "MARKET" ELSE "LIMIT"
          price_field == IF price > 0 THEN price ELSE -1
          cancel_time == IF exp_min > 0 THEN exp_min ELSE 0
          order_id == IF outcome = "created" THEN w.nextOrderId ELSE NoOrderId
          w1 == Logged(w, Call("post", order_id, src, Upper(instruction), quantity,
                               symbol, order_type, price_field, cancel_time, outcome))
      IN [w |-> [w1 EXCEPT !.nextOrderId =
                    IF outcome = "created" THEN @ + 1 ELSE @],
          order_id |-> order_id,
          raised |-> FALSE]

\* get_orders: logs the lookup; the answer is r (the brokerage's).
get_orders(w, order_id, r) ==
    Logged(w, [Call("get", order_id, 0, "", r.filledQuantity, "", "", -1, 0,
                    IF r.lookup_ok THEN r.status ELSE "None")
               EXCEPT !.qty_null = r.qty_null])

\* delete_orders: logs the cancellation request.
delete_orders(w, order_id, ok) ==
    Logged(w, Call("cancel", order_id, 0, "", 0, "", "", -1, 0,
                   IF ok THEN "True" ELSE "False"))

\* add_active_position: [w, raised]
add_active_position(w, strategy_id, order_id, quantity, entry_price, ok) ==
    LET w1 == Logged(w, Call("db_insert", order_id, 0, "", quantity, "", "",
                              entry_price, 0, IF ok THEN "ok" ELSE "raised"))
    IN IF ok
       THEN [w |-> [w1 EXCEPT !.active_positions =
                       Append(@, [strategy_id |-> strategy_id, order_id |-> order_id,
                                  quantity |-> quantity, entry_price |-> entry_price])],
             raised |-> FALSE]
       ELSE [w |-> w1, raised |-> TRUE]

\* The rows of a strategy, in table order.
RECURSIVE RowsOf(_, _)
RowsOf(rows, strategy_id) ==
    IF rows = <<>> THEN <<>>
    ELSE LET rest == RowsOf(Tail(rows), strategy_id)
         IN IF Head(rows).strategy_id = strategy_id
            THEN <<Head(rows)>> \o rest
            ELSE rest

OrderIdsOf(rows, strategy_id) ==
    LET mine == RowsOf(rows, strategy_id)
    IN [i \in 1 .. Len(mine) |-> mine[i].order_id]

\* get_order_id_list: [w, ids, raised]
get_order_id_list(w, strategy_id, ok) ==
    [w |-> Logged(w, Call("db_list", 0, 0, "", 0, "", "", -1, 0,
                          IF ok THEN "ok" ELSE "raised")),
     ids |-> IF ok THEN OrderIdsOf(w.active_positions, strategy_id) ELSE <<>>,
     raised |-> ~ok]

RECURSIVE RowsNotOf(_, _)
RowsNotOf(rows, strategy_id) ==
    IF rows = <<>> THEN <<>>
    ELSE LET rest == RowsNotOf(Tail(rows), strategy_id)
         IN IF Head(rows).strategy_id = strategy_id
            THEN rest
            ELSE <<Head(rows)>> \o rest

\* delete_active_positions without the WHERE clause.
delete_active_positions_all(w, strategy_id, ok) ==
    LET w1 == Logged(w, Call("db_delete", 0, 0, "", 0, "", "", -1, 0,
                              IF ok THEN "ok" ELSE "raised"))
    IN IF ok
       THEN [w |-> [w1 EXCEPT !.active_positions = <<>>], raised |-> FALSE]
       ELSE [w |-> w1, raised |-> TRUE]

\* delete_active_positions: [w, raised]
delete_active_positions(w, strategy_id, ok) ==
    LET w1 == Logged(w, Call("db_delete", 0, 0, "", 0, "", "", -1, 0,
                              IF ok THEN "ok" ELSE "raised"))
    IN IF ok
       THEN [w |-> [w1 EXCEPT !.active_positions = RowsNotOf(@, strategy_id)],
             raised |-> FALSE]
       ELSE [w |-> w1, raised |-> TRUE]

\* The brokerage's behaviour for one tracked order during a SELL cycle: the
\* answer to the status lookup (lookup_ok FALSE: get_orders returns None;
\* qty_null: "filledQuantity" is JSON null), then what the placement of the
\* closing order (post) or the cancellation (cancel_ok) does.
RowOutcome(lookup_ok, status, qty_null, filledQuantity, post, cancel_ok) ==
    [lookup_ok |-> lookup_ok, status |-> status, qty_null |-> qty_null,
     filledQuantity |-> filledQuantity, post |-> post, cancel_ok |-> cancel_ok]

LookupFails == RowOutcome(FALSE, "None", FALSE, 0, "timeout", FALSE)

RowOutcomes ==
    {LookupFails}
    \cup {RowOutcome(TRUE, "FILLED", TRUE, 0, "timeout", FALSE)}
    \cup {RowOutcome(TRUE, "FILLED", FALSE, 0, "timeout", FALSE)}
    \cup {RowOutcome(TRUE, "FILLED", FALSE, q, p, FALSE) :
             q \in FilledQuantities \ {0}, p \in {"created", "timeout"}}
    \cup {RowOutcome(TRUE, "WORKING", FALSE, 0, "timeout", c) : c \in BOOLEAN}

\* The arguments of send_strategy_orders.
Args(quantity, exp_min, symbol, strategy_id, price, instruction) ==
    [quantity |-> quantity, exp_min |-> exp_min, symbol |-> symbol,
     strategy_id |-> strategy_id, price |-> price, instruction |-> instruction]

\* A SELL branch that gives the closing order the expiry of the cycle.
sell_one_cycle_expiry(w, order_id, args, r) ==
    LET w1 == get_orders(w, order_id, r)
    IN IF ~r.lookup_ok THEN [w |-> w1, raised |-> FALSE]
       ELSE IF r.status = "FILLED"
       THEN IF r.qty_null
            THEN [w |-> w1, raised |-> TRUE]
            ELSE IF r.filledQuantity > 0
            THEN LET s == send_orders(w1, r.filledQuantity, args.exp_min, args.price,
                                      args.symbol, "SELL", order_id, r.post)
                 IN [w |-> s.w, raised |-> s.raised]
            ELSE [w |-> w1, raised |-> FALSE]
       ELSE [w |-> delete_orders(w1, order_id, r.cancel_ok), raised |-> FALSE]

\* The body of the SELL branch's for loop for one order id: [w, raised].
\* r is the brokerage's behaviour for that order; args.price is the rounded
\* price.
sell_one(w, order_id, args, r) ==
    LET w1 == get_orders(w, order_id, r)
    IN IF ~r.lookup_ok THEN [w |-> w1, raised |-> FALSE]
       ELSE IF r.status = "FILLED"
       THEN IF r.qty_null
            THEN [w |-> w1, raised |-> TRUE]  \* None > 0: TypeError
            ELSE IF r.filledQuantity > 0
            THEN LET s == send_orders(w1, r.filledQuantity, SellExpMin, args.price,
                                      args.symbol, "SELL", order_id, r.post)
                 IN [w |-> s.w, raised |-> s.raised]
            ELSE [w |-> w1, raised |-> FALSE]
       ELSE [w |-> delete_orders(w1, order_id, r.cancel_ok), raised |-> FALSE]

\* The for loop of the SELL branch from order i on: [w, raised].  It ends
\* at the first order whose processing raises.
RECURSIVE sell_loop(_, _, _, _, _)
sell_loop(w, ids, i, args, rows) ==
    IF i > Len(ids) THEN [w |-> w, raised |-> FALSE]
    ELSE LET one == sell_one(w, ids[i], args, rows[i])
         IN IF one.raised THEN one
            ELSE sell_loop(one.w, ids, i + 1, args, rows)

\* The database's and the brokerage's behaviour during one cycle.
\* post, insert_ok: BUY; list_ok, rows, delete_ok: SELL.
Env(post, insert_ok, list_ok, rows, delete_ok) ==
    [post |-> post, insert_ok |-> insert_ok, list_ok |-> list_ok,
     rows |-> rows, delete_ok |-> delete_ok]

\* A BUY branch that places the order again when no order id came back.
buy_branch_retry(w, args, env) ==
    LET s0 == send_orders(w, args.quantity, args.exp_min, args.price, args.symbol,
                          "BUY", 0, env.post)
        s == IF ~s0.raised /\ s0.order_id = NoOrderId
             THEN send_orders(s0.w, args.quantity, args.exp_min, args.price,
                              args.symbol, "BUY", 0, env.post)
             ELSE s0
    IN IF s.raised THEN [w |-> s.w, result |-> "ValueError"]
       ELSE IF s.order_id # NoOrderId
       THEN [w |-> add_active_position(s.w, args.strategy_id, s.order_id,
                                       args.quantity, args.price, env.insert_ok).w,
             result |-> "BUY completed"]
       ELSE [w |-> s.w, result |-> "None"]

\* The BUY branch: [w, result].  args.price is the rounded price.
buy_branch(w, args, env) ==
    LET s == send_orders(w, args.quantity, args.exp_min, args.price, args.symbol,
                         "BUY", 0, env.post)
    IN IF s.raised THEN [w |-> s.w, result |-> "ValueError"]
       ELSE IF s.order_id # NoOrderId
       THEN [w |-> add_active_position(s.w, args.strategy_id, s.order_id,
                                       args.quantity, args.price, env.insert_ok).w,
             result |-> "BUY completed"]
       ELSE [w |-> s.w, result |-> "None"]

\* The SELL branch: [w, result].  Any exception of the try block is logged
\* and the branch still returns "SELL completed".
sell_branch(w, args, env) ==
    LET l == get_order_id_list(w, args.strategy_id, env.list_ok)
        f == sell_loop(l.w, l.ids, 1, args, env.rows)
    IN IF l.raised THEN [w |-> l.w, result |-> "SELL completed"]
       ELSE IF f.raised THEN [w |-> f.w, result |-> "SELL completed"]
       ELSE [w |-> delete_active_positions(f.w, args.strategy_id, env.delete_ok).w,
             result |-> "SELL completed"]

\* send_strategy_orders taking every instruction but BUY for a SELL.
send_strategy_orders_else_sell(w, quantity, exp_min, symbol, strategy_id, price0, instruction0, env) ==
    LET instruction == Upper(instruction0)
        args == Args(quantity, exp_min, symbol, strategy_id, round_price(price0),
                     instruction)
    IN IF instruction = "BUY"
       THEN buy_branch(w, args, env)
       ELSE sell_branch(w, args, env)

\* send_strategy_orders: [w, result].  result: the string returned, "None",
\* or "ValueError" when it raises.
send_strategy_orders(w, quantity, exp_min, symbol, strategy_id, price0, instruction0, env) ==
    LET instruction == Upper(instruction0)
        args == Args(quantity, exp_min, symbol, strategy_id, round_price(price0),
                     instruction)
    IN IF instruction \notin {"BUY", "SELL"}
       THEN [w |-> w, result |-> "ValueError"]
       ELSE IF instruction = "BUY"
       THEN buy_branch(w, args, env)
       ELSE sell_branch(w, args, env)

---------------------------------------------------------------------------
\* The state machine of the order lifecycle, and what the refresher and the
\* aggregation are before they have acted.

\* None where a token is expected
NoToken == 0
\* a request sent without a timeout argument
NoTimeout == 0

\* The token types of token_dict, in its order.
TokenTypes == <<"TRADING", "MARKET_DATA">>

\* The tokens are numbered as the token endpoint issues them; 1 is the
\* configured token.  What main begins with: .env and os.environ hold the
\* configured tokens, token.json is that of an earlier run, and
\* refresh_tokens_once has loaded its credentials.  phase: "once" in
\* refresh_tokens_once, "loop" in the refresher thread; environ: the
\* refresh tokens in os.environ; latest: the refresh token of the last
\* successful refresh, by token type.
NoRefresh ==
    [pc |-> "sleeping", phase |-> "once", i |-> 1, issued |-> 1,
     token_dict |-> [t \in {"TRADING", "MARKET_DATA"} |-> 1],
     environ |-> [t \in {"TRADING", "MARKET_DATA"} |-> 1],
     latest |-> [t \in {"TRADING", "MARKET_DATA"} |-> 1],
     env |-> [t \in {"TRADING", "MARKET_DATA"} |->
                 [ACCESS_TOKEN |-> 1, REFRESH_TOKEN |-> 1]],
     token_json |-> <<1, 1>>,
     written |-> {<<1, 1>>},
     request |-> [token_type |-> "", refresh_token |-> NoToken,
                  timeout |-> NoTimeout],
     response |-> [status |-> "", access_token |-> NoToken,
                   refresh_token |-> NoToken],
     returned |-> [access_token |-> NoToken, refresh_token |-> NoToken],
     read |-> [source |-> "", value |-> <<>>]]

\* no strategy on a stream of its own
NoSchedule ==
    [time_frame |-> 1, ts |-> 0, itsTime |-> FALSE, rows |-> 0,
     latched |-> FALSE, evaluated |-> FALSE, df |-> <<>>, candles |-> <<>>]

\* no brokerage request made on its own yet
NoRequest ==
    [function |-> "",
     response |-> [raises |-> "", status_code |-> 0, body |-> "", location |-> <<>>],
     returned |-> [raised |-> "", value |-> <<>>]]

\* the columns aggregate_time_frame requires
RequiredColumns == {"symbol", "open", "high", "low", "close", "volume"}

\* no call of aggregate_time_frame on its own yet
NoAggregation ==
    [df |-> <<>>, aggregation |-> 1, columns |-> RequiredColumns,
     datetime_index |-> TRUE, result |-> "", out |-> <<>>]

NoCycle ==
    [strategy_id |-> 0, instruction |-> "", quantity |-> 0, price |-> 0,
     symbol |-> "", exp_min |-> 0, result |-> "", table_before |-> <<>>]

\* What `last` remembers of a cycle: its arguments, its result, and the
\* table before it ran.
Cycle(w, quantity, exp_min, symbol, strategy_id, price, instruction, result) ==
    [strategy_id |-> strategy_id, instruction |-> Upper(instruction),
     quantity |-> quantity, price |-> price, symbol |-> symbol,
     exp_min |-> exp_min, result |-> result,
     table_before |-> w.active_positions]

Init ==
    /\ active_positions = <<>>
    /\ nextOrderId = 1
    /\ calls = <<>>
    /\ last = NoCycle
    /\ df_dict = <<>>
    /\ pc = "exited"
    /\ resubscribed = FALSE
    /\ bar = [datetime |-> 0, symbol |-> ""]
    /\ seen = <<>>
    /\ handlers = 0
    /\ sup = [event |-> "none"]
    /\ agg = NoAggregation
    /\ tok = NoRefresh
    /\ req = NoRequest
    /\ sched = NoSchedule

\* The environments offered to a cycle: those its instruction reads.  The
\* brokerage accepts a further order only while it has accepted at most
\* MaxOrders before the cycle.
Accepting(w) == w.nextOrderId <= MaxOrders

PostOutcomesAt(w) ==
    IF Accepting(w) THEN PostOutcomes ELSE PostOutcomes \ {"created"}

RowOutcomesAt(w) ==
    IF Accepting(w) THEN RowOutcomes ELSE {r \in RowOutcomes : r.post # "created"}

BuyEnvs(w) ==
    {Env(p, TRUE, TRUE, <<>>, TRUE) : p \in PostOutcomesAt(w)}
    \cup {Env(p, FALSE, TRUE, <<>>, TRUE) : p \in PostOutcomesAt(w) \cap {"created"}}

SellEnvs(w, n) ==
    {Env("timeout", TRUE, TRUE, rows, d) :
        rows \in [1 .. n -> RowOutcomesAt(w)], d \in BOOLEAN}
    \cup {Env("timeout", TRUE, FALSE, [i \in 1 .. n |-> LookupFails], TRUE)}

EnvsFor(w, strategy_id, instruction) ==
    CASE Upper(instruction) = "SELL" ->
           SellEnvs(w, Len(OrderIdsOf(w.active_positions, strategy_id)))
      [] Upper(instruction) = "BUY" -> BuyEnvs(w)
      [] OTHER -> {Env("timeout", TRUE, TRUE, <<>>, TRUE)}

\* A caller runs send_strategy_orders to completion.
SendStrategyOrders(quantity, exp_min, symbol, strategy_id, price, instruction, env) ==
    \E r \in {send_strategy_orders(World, quantity, exp_min, symbol, strategy_id,
                                   price, instruction, env)} :
       /\ active_positions' = r.w.active_positions
       /\ nextOrderId' = r.w.nextOrderId
       /\ calls' = r.w.calls
       /\ last' = Cycle(World, quantity, exp_min, symbol, strategy_id, price,
                        instruction, r.result)

\* The requests callers make.  A request that is invalid (no symbol, no
\* quantity, unknown instruction) is made with one price.
Requests ==
    {a \in [quantity : Quantities, exp_min : ExpMins, symbol : OrderSymbols,
            strategy_id : StrategyIds, price : OrderPrices,
            instruction : Instructions] :
        /\ (a.symbol = "" \/ a.quantity = 0 \/ Upper(a.instruction) = "HOLD")
              => a.price = 0
        /\ Upper(a.instruction) = "HOLD" => (a.symbol # "" /\ a.quantity # 0)}

OrderCall ==
    \E a \in Requests :
      \E env \in EnvsFor(World, a.strategy_id, a.instruction) :
        /\ SendStrategyOrders(a.quantity, a.exp_min, a.symbol, a.strategy_id,
                              a.price, a.instruction, env)
        /\ UNCHANGED <<df_dict, pc, resubscribed, bar, seen, handlers, sup, agg, tok, req, sched>>

Next == OrderCall

Spec == Init /\ [][Next]_vars

\* 0.00004 dollars: a positive price below half the smallest step
SmallPrices == {4}

\* The requests of one strategy at price 0, at the halfway prices and at
\* the small price.
PricedRequests ==
    [quantity : {1}, exp_min : ExpMins, symbol : {"SPY"}, strategy_id : {1},
     price : {0} \cup HalfwayPrices \cup SmallPrices, instruction : {"BUY", "sell"}]

PricedOrderCall ==
    \E a \in PricedRequests :
      \E env \in EnvsFor(World, a.strategy_id, a.instruction) :
        /\ SendStrategyOrders(a.quantity, a.exp_min, a.symbol, a.strategy_id,
                              a.price, a.instruction, env)
        /\ UNCHANGED <<df_dict, pc, resubscribed, bar, seen, handlers, sup, agg, tok, req, sched>>

NextPrice == PricedOrderCall

SpecPrice == Init /\ [][NextPrice]_vars

---------------------------------------------------------------------------
\* The automatic stream: strategies, bars and aggregation.

\* The rows of strategy_info (the active strategies), by id.
strategy_info ==
    (1 :> [name |-> "smaCross", symbol |-> "SPY", time_frame |-> 2,
           order_type |-> "LIMIT"])
    @@ (2 :> [name |-> "smaCross", symbol |-> "QQQ", time_frame |-> 1,
              order_type |-> "MARKET"])
    @@ (3 :> [name |-> "meanReversion", symbol |-> "SPY", time_frame |-> 3,
              order_type |-> "MARKET"])

\* df_dict is iterated in insertion order: the order of strategy_info.
StrategyOrder == <<1, 2, 3>>

\* The names whose main() _import_all_strategies imported at startup: the
\* import of "meanReversion" failed and was logged.
STRATEGY_CACHE == {"smaCross"}

\* The one-minute bar of a symbol at minute ts (minutes since an hour
\* boundary, exchange time).  "datetime" is the index of the frame.
LiveBar(symbol, ts) ==
    [datetime |-> ts, symbol |-> symbol,
     open |-> (ts + 1) * PriceScale, high |-> (ts + 2) * PriceScale,
     low |-> (ts + 1) * PriceScale, close |-> (ts + 2) * PriceScale,
     volume |-> 100]

\* bar_ts.minute
MinuteOf(ts) == ts % 60

its_time(minute, time_frame) == minute % time_frame = 0

\* the delay added to the bar's minute before the evaluation test
tosDelay == 1

\* pd.concat([df, new_bars]).sort_index(): the new bar goes behind the bars
\* that are not later than it.
RECURSIVE sort_index_concat(_, _)
sort_index_concat(df, new_bar) ==
    IF df = <<>> THEN <<new_bar>>
    ELSE IF Head(df).datetime <= new_bar.datetime
    THEN <<Head(df)>> \o sort_index_concat(Tail(df), new_bar)
    ELSE <<new_bar>> \o df

RECURSIVE SortedSeq(_)
SortedSeq(S) ==
    IF S = {} THEN <<>>
    ELSE LET m == CHOOSE x \in S : \A y \in S : x <= y
         IN <<m>> \o SortedSeq(S \ {m})

RECURSIVE MaxHigh(_)
MaxHigh(bars) ==
    IF Len(bars) = 1 THEN bars[1].high
    ELSE LET m == MaxHigh(Tail(bars))
         IN IF bars[1].high >= m THEN bars[1].high ELSE m

RECURSIVE MinLow(_)
MinLow(bars) ==
    IF Len(bars) = 1 THEN bars[1].low
    ELSE LET m == MinLow(Tail(bars))
         IN IF bars[1].low <= m THEN bars[1].low ELSE m

RECURSIVE SumVolume(_)
SumVolume(bars) ==
    IF bars = <<>> THEN 0 ELSE bars[1].volume + SumVolume(Tail(bars))

\* resample(rule): the bars of df whose minute falls in [b*T, b*T + T)
BucketBars(df, b, T) ==
    SelectSeq(df, LAMBDA x : x.datetime \div T = b)

\* one row of a resampled frame that takes the high of the last bar and the
\* low of the first
Resampled_ends(bars, start) ==
    [datetime |-> start, symbol |-> bars[1].symbol, open |-> bars[1].open,
     high |-> bars[Len(bars)].high, low |-> bars[1].low,
     close |-> bars[Len(bars)].close, volume |-> SumVolume(bars)]

\* one row of the resampled frame: first/max/min/last/sum over the bucket
Resampled(bars, start) ==
    [datetime |-> start, symbol |-> bars[1].symbol, open |-> bars[1].open,
     high |-> MaxHigh(bars), low |-> MinLow(bars),
     close |-> bars[Len(bars)].close, volume |-> SumVolume(bars)]

\* The resampling without the test of the number of rows.
aggregate_time_frame_no_minimum(df, aggregation) ==
    IF df = <<>> THEN <<>>
    ELSE LET buckets == SortedSeq({df[i].datetime \div aggregation : i \in DOMAIN df})
         IN [k \in DOMAIN buckets |->
                Resampled(BucketBars(df, buckets[k], aggregation),
                          buckets[k] * aggregation)]

\* aggregate_time_frame for a frame with the required columns and a
\* positive aggregation: empty when the frame is empty or shorter than the
\* aggregation; else one row per bucket that holds a bar (the rows of the
\* buckets without a bar are NaN and dropped).
aggregate_time_frame(df, aggregation) ==
    IF df = <<>> \/ Len(df) < aggregation THEN <<>>
    ELSE LET buckets == SortedSeq({df[i].datetime \div aggregation : i \in DOMAIN df})
         IN [k \in DOMAIN buckets |->
                Resampled(BucketBars(df, buckets[k], aggregation),
                          buckets[k] * aggregation)]

---------------------------------------------------------------------------
\* on_bar.

\* The state on_bar works on.
BarState == [df_dict |-> df_dict, w |-> World, last |-> last,
             seen |-> [s \in DOMAIN df_dict |-> [matched |-> FALSE,
                 appended |-> FALSE, aggregated |-> FALSE, evaluated |-> FALSE,
                 ordered |-> FALSE, orders |-> 0, evals |-> <<>>,
                 deferred |-> FALSE]]]

\* What the strategy function and, after it, the brokerage and the database
\* do in one evaluation.  raises: the function raises; signal "": the last
\* row has no signal.
StratOutcome(raises, signal, quantity, env) ==
    [raises |-> raises, signal |-> signal, quantity |-> quantity, env |-> env,
     earlier |-> ""]

\* The same with a signal on the row before the last one.
WithEarlier(o, signal) == [o EXCEPT !.earlier = signal]

\* The frame the strategy function returns: the last two rows.  A signal
\* is "" (None, or no signal column), "NaN", or a string.
new_strat_df(o) ==
    <<[signal |-> o.earlier, quantity |-> o.quantity],
      [signal |-> o.signal, quantity |-> o.quantity]>>

\* What the ghost `seen` keeps of an evaluation.
Noted(o) == [raises |-> o.raises, signal |-> o.signal, earlier |-> o.earlier]

\* The row on_bar reads its signal from, were it the last row with a signal.
recent_candle_last_signal(df) ==
    IF df[Len(df)].signal = "" THEN df[Len(df) - 1] ELSE df[Len(df)]

\* new_strat_df.iloc[-1]
recent_candle(df) == df[Len(df)]

NoEnv == Env("timeout", TRUE, TRUE, <<>>, TRUE)

\* The signal handling asking the last candle's close of every strategy.
place_signal_close(st, strategy_id, candles, o) ==
    LET strategy_data == strategy_info[strategy_id]
        row == recent_candle(new_strat_df(o))
        price == candles[Len(candles)].close
        r == send_strategy_orders(st.w, row.quantity, strategy_data.time_frame,
                                  strategy_data.symbol, strategy_id, price,
                                  row.signal, o.env)
    IN [st EXCEPT !.w = r.w,
                  !.last = Cycle([st.w EXCEPT !.calls = <<>>], row.quantity,
                                 strategy_data.time_frame, strategy_data.symbol,
                                 strategy_id, price, row.signal, r.result),
                  !.seen[strategy_id].ordered = TRUE,
                  !.seen[strategy_id].orders = @ + 1]

\* The signal handling of on_bar (the body of `if recent_candle.get(...)`
\* from the order call on): the order call with the last candle's close for
\* a LIMIT strategy.  A ValueError of the call is logged.
place_signal(st, strategy_id, candles, o) ==
    LET strategy_data == strategy_info[strategy_id]
        row == recent_candle(new_strat_df(o))
        price == IF strategy_data.order_type = "LIMIT"
                 THEN candles[Len(candles)].close ELSE 0
        r == send_strategy_orders(st.w, row.quantity, strategy_data.time_frame,
                                  strategy_data.symbol, strategy_id, price,
                                  row.signal, o.env)
    IN [st EXCEPT !.w = r.w,
                  !.last = Cycle([st.w EXCEPT !.calls = <<>>], row.quantity,
                                 strategy_data.time_frame, strategy_data.symbol,
                                 strategy_id, price, row.signal, r.result),
                  !.seen[strategy_id].ordered = TRUE,
                  !.seen[strategy_id].orders = @ + 1]

\* The evaluation block with an error handler that empties the buffer of
\* the strategy whose function raised.
evaluate_reset(st, strategy_id, candles, o) ==
    LET st1 == [st EXCEPT !.seen[strategy_id].evaluated = TRUE,
                          !.seen[strategy_id].evals = Append(@, Noted(o))]
    IN IF o.raises THEN [st1 EXCEPT !.df_dict[strategy_id].df = <<>>]
       ELSE IF recent_candle(new_strat_df(o)).signal \in {"", "NaN"} THEN st1
       ELSE place_signal(st1, strategy_id, candles, o)

\* The evaluation block of on_bar for one strategy (the inner try): the
\* function is looked up and called; an exception is logged; a last row
\* without a signal ends the cycle; a NaN signal is truthy and fails at
\* .upper() with an AttributeError that is logged.
evaluate(st, strategy_id, candles, o) ==
    IF strategy_info[strategy_id].name \notin STRATEGY_CACHE
    THEN [st EXCEPT !.seen[strategy_id].deferred = TRUE]
    ELSE LET st1 == [st EXCEPT !.seen[strategy_id].evaluated = TRUE,
                               !.seen[strategy_id].evals = Append(@, Noted(o))]
         IN IF o.raises THEN st1
            ELSE IF recent_candle(new_strat_df(o)).signal \in {"", "NaN"} THEN st1
            ELSE place_signal(st1, strategy_id, candles, o)

\* The test that lets an evaluation happen on this bar.
should_evaluate_no_delay(bar_min, time_frame) == its_time(bar_min, time_frame)

should_evaluate(bar_min, time_frame) == its_time(bar_min + tosDelay, time_frame)

\* The itsTime flag after the check at the head of the loop body: it stays
\* set, or is set by a bar on a multiple of the time frame.
latch_recomputed(itsTime, bar_min, time_frame) == its_time(bar_min, time_frame)

latch(itsTime, bar_min, time_frame) == itsTime \/ its_time(bar_min, time_frame)

\* The try block of the loop body: append, aggregate, evaluate.
handle_bar(st, strategy_id, item, o) ==
    LET time_frame == strategy_info[strategy_id].time_frame
        df == sort_index_concat(st.df_dict[strategy_id].df, item)
        candles == IF time_frame = 1 THEN df
                   ELSE aggregate_time_frame(df, time_frame)
        st1 == [st EXCEPT !.df_dict[strategy_id].df = df,
                          !.seen[strategy_id].appended = TRUE,
                          !.seen[strategy_id].aggregated = (time_frame # 1)]
    IN IF candles = <<>> THEN st1
       ELSE IF should_evaluate(MinuteOf(item.datetime), time_frame)
       THEN evaluate(st1, strategy_id, candles, o)
       ELSE st1

\* The loop body with the `else: continue` of the itsTime check left out.
process_strategy_ungated(st, strategy_id, item, o) ==
    LET strategy_data == strategy_info[strategy_id]
        itsTime == latch(st.df_dict[strategy_id].itsTime,
                         MinuteOf(item.datetime), strategy_data.time_frame)
        st0 == [st EXCEPT !.df_dict[strategy_id].itsTime = itsTime,
                          !.seen[strategy_id].matched = TRUE]
    IN IF strategy_data.symbol # item.symbol THEN st
       ELSE handle_bar(st0, strategy_id, item, o)

\* The loop body with one itsTime flag per symbol: the flag a strategy sets
\* is set for every strategy of its symbol.
process_strategy_shared(st, strategy_id, item, o) ==
    LET strategy_data == strategy_info[strategy_id]
        itsTime == latch(st.df_dict[strategy_id].itsTime,
                         MinuteOf(item.datetime), strategy_data.time_frame)
        st0 == [st EXCEPT !.df_dict =
                              [t \in DOMAIN st.df_dict |->
                                  IF strategy_info[t].symbol = item.symbol
                                  THEN [st.df_dict[t] EXCEPT !.itsTime = @ \/ itsTime]
                                  ELSE st.df_dict[t]],
                          !.seen[strategy_id].matched = TRUE]
    IN IF strategy_data.symbol # item.symbol THEN st
       ELSE IF ~itsTime THEN st0
       ELSE handle_bar(st0, strategy_id, item, o)

\* The body of on_bar's loop over df_dict for one strategy and one item.
process_strategy(st, strategy_id, item, o) ==
    LET strategy_data == strategy_info[strategy_id]
        itsTime == latch(st.df_dict[strategy_id].itsTime,
                         MinuteOf(item.datetime), strategy_data.time_frame)
        st0 == [st EXCEPT !.df_dict[strategy_id].itsTime = itsTime,
                          !.seen[strategy_id].matched = TRUE]
    IN IF strategy_data.symbol # item.symbol THEN st
       ELSE IF ~itsTime THEN st0
       ELSE handle_bar(st0, strategy_id, item, o)

\* on_bar for one item: the strategies in df_dict order from the k-th on.
RECURSIVE on_bar_from(_, _, _, _)
on_bar_from(st, k, item, outcomes) ==
    IF k > Len(StrategyOrder) THEN st
    ELSE LET strategy_id == StrategyOrder[k]
         IN IF strategy_id \notin DOMAIN st.df_dict
            THEN on_bar_from(st, k + 1, item, outcomes)
            ELSE on_bar_from(
                   process_strategy(st, strategy_id, item,
                       IF strategy_id \in DOMAIN outcomes
                       THEN outcomes[strategy_id]
                       ELSE StratOutcome(FALSE, "", 0, NoEnv)),
                   k + 1, item, outcomes)

\* on_bar for a message with one item; an item without a symbol key is
\* skipped.
on_bar(st, item, outcomes) ==
    IF item.symbol = "" THEN st ELSE on_bar_from(st, 1, item, outcomes)

\* The strategies whose function on_bar calls for this item in state st.
Evaluated(st, item) ==
    {s \in DOMAIN st.df_dict :
        LET time_frame == strategy_info[s].time_frame
            bar_min == MinuteOf(item.datetime)
            df == sort_index_concat(st.df_dict[s].df, item)
        IN /\ item.symbol # ""
           /\ strategy_info[s].symbol = item.symbol
           /\ latch(st.df_dict[s].itsTime, bar_min, time_frame)
           /\ (IF time_frame = 1 THEN df
               ELSE aggregate_time_frame(df, time_frame)) # <<>>
           /\ should_evaluate(bar_min, time_frame)
           /\ strategy_info[s].name \in STRATEGY_CACHE}

---------------------------------------------------------------------------
\* run_stream after startup: the loop around stream.handle_message().

StreamSymbols == {"SPY", "QQQ"}

\* The bar items the stream delivers: SPY bars of every minute, the QQQ bar
\* of minute 0, and an item without a symbol key ("").
Items ==
    {LiveBar("SPY", ts) : ts \in 0 .. MaxTs}
    \cup {LiveBar("QQQ", 0), LiveBar("", 0)}

\* The buffer _initial_df seeds when the history is not empty: the candles
\* of the minutes 0 and 1.
Seed(symbol) == <<LiveBar(symbol, 0), LiveBar(symbol, 1)>>

\* What the strategy functions, the brokerage and the database may do in the
\* stream: the function raises, gives no signal on the last row (None with
\* or without a BUY on the row before, NaN, "NONE"), or gives BUY or SELL; the
\* brokerage accepts the order or times out; a looked-up order is working
\* and cancelled, or filled.
StreamRowOutcomes ==
    {RowOutcome(TRUE, "WORKING", FALSE, 0, "timeout", TRUE),
     RowOutcome(TRUE, "FILLED", FALSE, 2, "timeout", TRUE)}

StreamOutcomes(w, strategy_id) ==
    {StratOutcome(TRUE, "", 0, NoEnv), StratOutcome(FALSE, "", 0, NoEnv),
     WithEarlier(StratOutcome(FALSE, "", 1, NoEnv), "BUY"),
     StratOutcome(FALSE, "NaN", 0, NoEnv), StratOutcome(FALSE, "NONE", 1, NoEnv)}
    \cup (IF Accepting(w)
          THEN {StratOutcome(FALSE, "BUY", 1, Env("created", TRUE, TRUE, <<>>, TRUE))}
          ELSE {StratOutcome(FALSE, "BUY", 1, NoEnv)})
    \cup {StratOutcome(FALSE, "SELL", 1, Env("timeout", TRUE, TRUE, rows, TRUE)) :
             rows \in [1 .. Len(OrderIdsOf(w.active_positions, strategy_id))
                         -> StreamRowOutcomes]}

\* chart_equity_subs(list_symbols): the symbols of all configured strategies
list_symbols == {strategy_info[s].symbol : s \in DOMAIN strategy_info}

\* What the strategy functions and the brokerage do during one run of on_bar.
OutcomesAt(st, item) ==
    {o \in [Evaluated(st, item) ->
               UNION {StreamOutcomes(st.w, s) : s \in DOMAIN st.df_dict}] :
        \A s \in DOMAIN o : o[s] \in StreamOutcomes(st.w, s)}

\* handle_message hands a chart message to every registered handler in
\* turn: on_bar runs to completion once per registration.  The states the
\* message can leave behind after n more runs.
RECURSIVE handle_message(_, _, _)
handle_message(st, item, n) ==
    IF n = 0 THEN {st}
    ELSE UNION {handle_message(on_bar(st, item, o), item, n - 1) :
                   o \in OutcomesAt(st, item)}

\* The main loop's iteration as the ghost `sup` records it.
Iteration(event, logins, symbols) ==
    [event |-> event, logins |-> logins, symbols |-> symbols]

\* The handler of ConnectionClosedOK with a retry of the failed attempt.
on_closed_ok_retry(h, attempts) ==
    IF attempts[1] = "ok"
    THEN [pc |-> "receiving", handlers |-> h + 1,
          sup |-> Iteration("closed_ok", 1, list_symbols)]
    ELSE [pc |-> IF attempts[2] = "ok" THEN "receiving" ELSE "unsubscribed",
          handlers |-> h + (IF attempts[1] = "login_failed" THEN 0 ELSE 1)
                         + (IF attempts[2] = "login_failed" THEN 0 ELSE 1),
          sup |-> Iteration("closed_ok", 2,
                            IF attempts[1] = "login_failed"
                               /\ attempts[2] = "login_failed"
                            THEN {} ELSE list_symbols)]

\* The handler of ConnectionClosedOK: one login, one more registration of
\* on_bar, one subscription to list_symbols; a failure of the login or of
\* the subscription is logged.  attempts[i] is what the i-th attempt of the
\* process would meet: "ok", "login_failed" or "subs_failed".
on_closed_ok(h, attempts) ==
    [pc |-> IF attempts[1] = "ok" THEN "receiving" ELSE "unsubscribed",
     handlers |-> IF attempts[1] = "login_failed" THEN h ELSE h + 1,
     sup |-> Iteration("closed_ok", 1,
                       IF attempts[1] = "login_failed" THEN {} ELSE list_symbols)]

\* The handlers of ConnectionClosed and of any other exception, taken for
\* the handler of ConnectionClosedOK.
on_fatal_reconnect(h, event) ==
    [pc |-> "receiving", handlers |-> h + 1,
     sup |-> Iteration(event, 1, list_symbols)]

\* The handlers of ConnectionClosed and of any other exception: sys.exit(1).
on_fatal(h, event) ==
    [pc |-> "exited", handlers |-> h, sup |-> Iteration(event, 0, {})]

\* What the login and the subscription meet: the first attempt succeeds or
\* fails in either call; a second one would succeed.
Attempts == {<<a, "ok">> : a \in {"ok", "login_failed", "subs_failed"}}

\* The state when the main loop is entered: the buffers seeded, on_bar
\* registered once, all symbols subscribed.
InitStream ==
    /\ active_positions = <<>>
    /\ nextOrderId = 1
    /\ calls = <<>>
    /\ last = NoCycle
    /\ \E seeded \in [StreamSymbols -> BOOLEAN] :
          df_dict = [s \in DOMAIN strategy_info |->
                        [df |-> IF seeded[strategy_info[s].symbol]
                                THEN Seed(strategy_info[s].symbol) ELSE <<>>,
                         itsTime |-> FALSE]]
    /\ pc = "receiving"
    /\ resubscribed = FALSE
    /\ bar = LiveBar("", 0)
    /\ seen = BarState.seen
    /\ handlers = 1
    /\ sup = Iteration("start", 1, list_symbols)
    /\ agg = NoAggregation
    /\ tok = NoRefresh
    /\ req = NoRequest
    /\ sched = NoSchedule

\* handle_message delivers a chart message with one bar item.
BarMessage ==
    /\ pc = "receiving"
    /\ \E item \in Items :
         /\ \A s \in DOMAIN df_dict :
               strategy_info[s].symbol = item.symbol
                   => Len(df_dict[s].df) + handlers <= MaxBuf
         /\ \E st \in handle_message(BarState, item, handlers) :
              /\ df_dict' = st.df_dict
              /\ seen' = st.seen
              /\ bar' = item
              /\ active_positions' = st.w.active_positions
              /\ nextOrderId' = st.w.nextOrderId
              /\ calls' = IF \E s \in DOMAIN st.seen : st.seen[s].orders > 0
                          THEN st.w.calls ELSE calls
              /\ last' = st.last
         /\ sup' = Iteration("bar", 0, {})
         /\ UNCHANGED <<pc, resubscribed, handlers, agg, tok, req, sched>>

\* handle_message raises ConnectionClosedOK.
NormalClosure ==
    /\ pc \in {"receiving", "unsubscribed"}
    /\ \E attempts \in Attempts :
         \E r \in {on_closed_ok(handlers, attempts)} :
            /\ r.handlers <= MaxHandlers
            /\ pc' = r.pc
            /\ handlers' = r.handlers
            /\ sup' = r.sup
            /\ resubscribed' = (resubscribed \/ r.pc = "receiving")
    /\ UNCHANGED <<active_positions, nextOrderId, calls, last, df_dict, bar, seen,
                   agg, tok, req, sched>>

\* handle_message raises ConnectionClosed (not OK) or any other exception.
FatalClosure ==
    /\ pc \in {"receiving", "unsubscribed"}
    /\ \E event \in {"closed_abnormal", "error"} :
         \E r \in {on_fatal(handlers, event)} :
            /\ r.handlers <= MaxHandlers
            /\ pc' = r.pc
            /\ handlers' = r.handlers
            /\ sup' = r.sup
    /\ UNCHANGED <<active_positions, nextOrderId, calls, last, df_dict,
                   resubscribed, bar, seen, agg, tok, req, sched>>

NextStream == BarMessage \/ NormalClosure \/ FatalClosure

SpecStream == InitStream /\ [][NextStream]_vars

\* _initial_df seeds the strategies in order inside one try: when the fetch
\* of the strategy at position failed raises, the exception is logged and
\* the function returns, with entries for the strategies before it only.
\* failed = Len(StrategyOrder) + 1: no fetch raises.
_initial_df(failed, seeded) ==
    [s \in {StrategyOrder[i] : i \in 1 .. failed - 1} |->
        [df |-> IF seeded[strategy_info[s].symbol]
                THEN Seed(strategy_info[s].symbol) ELSE <<>>,
         itsTime |-> FALSE]]

\* The state when the main loop is entered, whatever _initial_df has left:
\* run_stream goes on to register on_bar and to subscribe all symbols.
InitStartup ==
    /\ active_positions = <<>>
    /\ nextOrderId = 1
    /\ calls = <<>>
    /\ last = NoCycle
    /\ \E failed \in 1 .. Len(StrategyOrder) + 1 :
       \E seeded \in [StreamSymbols -> BOOLEAN] :
          df_dict = _initial_df(failed, seeded)
    /\ pc = "receiving"
    /\ resubscribed = FALSE
    /\ bar = LiveBar("", 0)
    /\ seen = BarState.seen
    /\ handlers = 1
    /\ sup = Iteration("start", 1, list_symbols)
    /\ agg = NoAggregation
    /\ tok = NoRefresh
    /\ req = NoRequest
    /\ sched = NoSchedule

SpecStartup == InitStartup /\ [][NextStream]_vars

---------------------------------------------------------------------------
\* aggregate_time_frame on its own, on frames of one-minute bars.

\* create_sample_df(minutes): bars from 9:30 on with open/high/low/close
\* i/(i+1)/i/(i+1) and volume 100
TestStart == 30
TestMinutes == 10
TestAggregation == 5

create_sample_df(minutes) ==
    [k \in 1 .. minutes |->
        [datetime |-> TestStart + k - 1, symbol |-> "test", open |-> k - 1,
         high |-> k, low |-> k - 1, close |-> k, volume |-> 100]]

\* A one-minute bar of a rising or of a falling series.
RawBar(ts, shape) ==
    IF shape = "rising"
    THEN [datetime |-> ts, symbol |-> "test", open |-> ts, high |-> ts + 1,
          low |-> ts, close |-> ts + 1, volume |-> 100]
    ELSE [datetime |-> ts, symbol |-> "test", open |-> 2 * (MaxMinute - ts) + 2,
          high |-> 2 * (MaxMinute - ts) + 3, low |-> 2 * (MaxMinute - ts),
          close |-> 2 * (MaxMinute - ts) + 1, volume |-> 100 + ts]

\* The frames with the bars of a set of minutes, in ascending order.
Frame(minutes, shape) ==
    LET ordered == SortedSeq(minutes)
    IN [k \in DOMAIN ordered |-> RawBar(ordered[k], shape)]

Frames ==
    {Frame(minutes, shape) : minutes \in SUBSET (0 .. MaxMinute),
                             shape \in {"rising", "falling"}}
    \cup {create_sample_df(TestMinutes)}

Aggregations == (1 .. MaxAggregation) \cup {TestAggregation}

\* aggregations that are not positive
BadAggregations == {-1, 0}

\* The column sets of the frames: all required columns, or all but volume.
ColumnSets == {RequiredColumns, RequiredColumns \ {"volume"}}

\* The validation of aggregate_time_frame, in its order: an empty frame
\* returns empty before any other test; then the index, then the
\* aggregation; a frame shorter than the aggregation returns empty before
\* the columns are tested.  "" when nothing is raised.
input_error(df, aggregation, columns, datetime_index) ==
    IF df = <<>> THEN ""
    ELSE IF ~datetime_index THEN "ValueError"
    ELSE IF aggregation <= 0 THEN "ValueError"
    ELSE IF Len(df) < aggregation THEN ""
    ELSE IF RequiredColumns \ columns # {} THEN "ValueError"
    ELSE ""

\* One call of aggregate_time_frame.
AggregateCall(df, aggregation, columns, datetime_index) ==
    LET error == input_error(df, aggregation, columns, datetime_index)
    IN [df |-> df, aggregation |-> aggregation, columns |-> columns,
        datetime_index |-> datetime_index,
        result |-> IF error = "" THEN "returned" ELSE error,
        out |-> IF error = "" THEN aggregate_time_frame(df, aggregation)
                ELSE <<>>]

Aggregate ==
    /\ \E df \in Frames, aggregation \in Aggregations \cup BadAggregations,
          columns \in ColumnSets, datetime_index \in BOOLEAN :
          agg' = AggregateCall(df, aggregation, columns, datetime_index)
    /\ UNCHANGED <<active_positions, nextOrderId, calls, last, df_dict, pc,
                   resubscribed, bar, seen, handlers, sup, tok, req, sched>>

NextAggregate == Aggregate

SpecAggregate == Init /\ [][NextAggregate]_vars

---------------------------------------------------------------------------
\* The token refresher thread (keep_token_alive.py) beside the bar path.

\* get_new_access_token returning no refresh token when the refresh fails.
get_new_access_token_forgets(refresh_token, response) ==
    IF response.status = "200"
    THEN [access_token |-> response.access_token,
          refresh_token |-> IF response.refresh_token = NoToken
                            THEN refresh_token ELSE response.refresh_token]
    ELSE [access_token |-> NoToken, refresh_token |-> NoToken]

\* get_new_access_token with the response of the token endpoint: the new
\* access token and the response's refresh token, or the old refresh token
\* when the response has none, on 200; None and the old refresh token on
\* any other status and on a request error.
get_new_access_token(refresh_token, response) ==
    IF response.status = "200"
    THEN [access_token |-> response.access_token,
          refresh_token |-> IF response.refresh_token = NoToken
                            THEN refresh_token ELSE response.refresh_token]
    ELSE [access_token |-> NoToken, refresh_token |-> refresh_token]

\* What the token endpoint can answer: the next tokens, the next access
\* token alone, a refusal, or no answer (a request error).
Responses(t) ==
    {[status |-> "400", access_token |-> NoToken, refresh_token |-> NoToken],
     [status |-> "RequestException", access_token |-> NoToken,
      refresh_token |-> NoToken]}
    \cup (IF t.issued < MaxIssued
          THEN {[status |-> "200", access_token |-> t.issued + 1,
                 refresh_token |-> r] : r \in {NoToken, t.issued + 1}}
          ELSE {})

\* The loop over token_dict goes to the next token type; after the last,
\* refresh_tokens_once returns and tokens_refresh_loop sleeps.
NextType(t) ==
    IF t.i < Len(TokenTypes) THEN [t EXCEPT !.i = @ + 1, !.pc = "next"]
    ELSE [t EXCEPT !.i = 1,
                   !.pc = IF t.phase = "once" THEN "returned_once"
                          ELSE "sleeping"]

\* requests.post(token_url, headers=headers, data=data) is sent.
PostTokenRequest ==
    /\ tok.pc \in {"sleeping", "next"}
    /\ tok' = [tok EXCEPT !.pc = "requesting",
                          !.request = [token_type |-> TokenTypes[tok.i],
                                       refresh_token |-> tok.token_dict[TokenTypes[tok.i]],
                                       timeout |-> NoTimeout]]
    /\ UNCHANGED <<active_positions, nextOrderId, calls, last, df_dict, pc,
                   resubscribed, bar, seen, handlers, sup, agg, req, sched>>

\* The request returns: get_new_access_token returns, and the token type
\* is skipped or, in tokens_refresh_loop, the new refresh token is kept in
\* token_dict; refresh_tokens_once does not keep it.
TokenResponse ==
    /\ tok.pc = "requesting"
    /\ \E response \in Responses(tok) :
         LET returned == get_new_access_token(tok.request.refresh_token, response)
             t == [tok EXCEPT !.response = response, !.returned = returned,
                              !.issued = IF response.status = "200"
                                         THEN @ + 1 ELSE @,
                              !.latest[TokenTypes[tok.i]] =
                                  IF response.status = "200"
                                  THEN returned.refresh_token ELSE @]
         IN tok' = IF returned.access_token = NoToken THEN NextType(t)
                   ELSE [t EXCEPT !.pc = "returned",
                                  !.token_dict[TokenTypes[tok.i]] =
                                      IF tok.phase = "loop"
                                      THEN returned.refresh_token ELSE @]
    /\ UNCHANGED <<active_positions, nextOrderId, calls, last, df_dict, pc,
                   resubscribed, bar, seen, handlers, sup, agg, req, sched>>

\* _update_env_file, first set_key: the access token.
SetAccessToken ==
    /\ tok.pc = "returned"
    /\ tok' = [tok EXCEPT !.pc = "access_set",
                          !.env[TokenTypes[tok.i]].ACCESS_TOKEN =
                              tok.returned.access_token]
    /\ UNCHANGED <<active_positions, nextOrderId, calls, last, df_dict, pc,
                   resubscribed, bar, seen, handlers, sup, agg, req, sched>>

\* _update_env_file, second set_key: the refresh token.  token.json is
\* written for TRADING only.
SetRefreshToken ==
    /\ tok.pc = "access_set"
    /\ LET t == [tok EXCEPT !.env[TokenTypes[tok.i]].REFRESH_TOKEN =
                                tok.returned.refresh_token]
       IN tok' = IF TokenTypes[tok.i] = "TRADING"
                 THEN [t EXCEPT !.pc = "env_updated"]
                 ELSE NextType(t)
    /\ UNCHANGED <<active_positions, nextOrderId, calls, last, df_dict, pc,
                   resubscribed, bar, seen, handlers, sup, agg, req, sched>>

\* _update_token_json, write_text opens token.json for writing: the file
\* is truncated.
OpenTokenJson ==
    /\ tok.pc = "env_updated"
    /\ tok' = [tok EXCEPT !.pc = "truncated", !.token_json = <<>>]
    /\ UNCHANGED <<active_positions, nextOrderId, calls, last, df_dict, pc,
                   resubscribed, bar, seen, handlers, sup, agg, req, sched>>

\* _update_token_json, write_text writes the token data and closes.
WriteTokenJson ==
    /\ tok.pc = "truncated"
    /\ LET token_data == <<tok.returned.refresh_token, tok.returned.access_token>>
       IN tok' = NextType([tok EXCEPT !.token_json = token_data,
                                      !.written = @ \cup {token_data}])
    /\ UNCHANGED <<active_positions, nextOrderId, calls, last, df_dict, pc,
                   resubscribed, bar, seen, handlers, sup, agg, req, sched>>

\* main starts the refresher thread and then run_stream: the thread loads
\* its credentials with load_dotenv(), which leaves the variables os.environ
\* already has, before or after run_stream has reloaded .env over
\* os.environ with load_dotenv(override=True).
StartLoop ==
    /\ tok.pc = "returned_once"
    /\ \E reloaded \in BOOLEAN :
         LET environ == IF reloaded
                        THEN [t \in DOMAIN tok.env |-> tok.env[t].REFRESH_TOKEN]
                        ELSE tok.environ
         IN tok' = [tok EXCEPT !.phase = "loop", !.pc = "sleeping",
                               !.environ = environ, !.token_dict = environ]
    /\ UNCHANGED <<active_positions, nextOrderId, calls, last, df_dict, pc,
                   resubscribed, bar, seen, handlers, sup, agg, req, sched>>

\* run_stream creates the client: client_from_token_file reads token.json.
ClientFromTokenFile ==
    /\ tok.phase = "loop"
    /\ tok' = [tok EXCEPT !.read = [source |-> "token.json",
                                    value |-> tok.token_json]]
    /\ UNCHANGED <<active_positions, nextOrderId, calls, last, df_dict, pc,
                   resubscribed, bar, seen, handlers, sup, agg, req, sched>>

\* on_bar before an order call: load_dotenv(override=True) and
\* os.getenv("TRADING_ACCESS_TOKEN").
LoadAccessToken ==
    /\ tok.phase = "loop"
    /\ tok' = [tok EXCEPT !.read = [source |-> ".env",
                                    value |-> <<tok.env["TRADING"].ACCESS_TOKEN>>]]
    /\ UNCHANGED <<active_positions, nextOrderId, calls, last, df_dict, pc,
                   resubscribed, bar, seen, handlers, sup, agg, req, sched>>

NextToken ==
    \/ PostTokenRequest
    \/ TokenResponse
    \/ SetAccessToken
    \/ SetRefreshToken
    \/ OpenTokenJson
    \/ WriteTokenJson
    \/ StartLoop
    \/ ClientFromTokenFile
    \/ LoadAccessToken

SpecToken == Init /\ [][NextToken]_vars

---------------------------------------------------------------------------
\* The request functions of account/acc.py on their own.

\* What requests.get and requests.post can do: raise (a timeout, a
\* connection error, another request exception, any other exception), or
\* answer with a status, a body (a JSON object, a JSON array, or no JSON)
\* and, for a placed order, a Location header: its path split at "/", <<>>
\* when the header is absent.
RequestExceptions == {"Timeout", "ConnectionError", "RequestException", "Exception"}

StatusCodes == {200, 201, 400, 404, 500}

Bodies == {"dict", "list", "invalid"}

Locations == {<<>>, <<"", "orders", "12345">>, <<"", "orders", "67890">>}

HttpResponses ==
    [raises : {""}, status_code : StatusCodes, body : Bodies, location : Locations]
    \cup [raises : RequestExceptions, status_code : {0}, body : {""},
          location : {<<>>}]

\* resp.raise_for_status() raises HTTPError
raise_for_status(response) == response.status_code >= 400

\* What a request function gives back: None, or a value in a sequence.
None == [raised |-> "", value |-> <<>>]

Returned(value) == [raised |-> "", value |-> <<value>>]

\* The lookup functions with the handler of all other exceptions left out.
lookup_returns_unguarded(response, type) ==
    IF response.raises = "Exception"
    THEN [raised |-> "Exception", value |-> <<>>]
    ELSE IF response.raises # "" THEN None
    ELSE IF raise_for_status(response) THEN None
    ELSE IF response.body = "invalid" THEN None
    ELSE IF response.body # type THEN None
    ELSE Returned(response.body)

\* get_orders (type "dict") and get_today_orders (type "list") from the
\* request on: every exception and every answer that is not JSON of the
\* type gives None, the parsed data is returned otherwise.
lookup_returns(response, type) ==
    IF response.raises # "" THEN None
    ELSE IF raise_for_status(response) THEN None
    ELSE IF response.body = "invalid" THEN None
    ELSE IF response.body # type THEN None
    ELSE Returned(response.body)

\* send_orders giving the order id of every answer that has a Location.
post_returns_any_status(response) ==
    IF response.raises # "" THEN None
    ELSE IF raise_for_status(response) THEN None
    ELSE IF response.location # <<>>
         THEN Returned(response.location[Len(response.location)])
         ELSE None

\* send_orders from the request on, for a request that passed validation:
\* the last segment of Location on 201, None otherwise.
post_returns(response) ==
    IF response.raises # "" THEN None
    ELSE IF raise_for_status(response) THEN None
    ELSE IF response.status_code = 201
    THEN IF response.location # <<>>
         THEN Returned(response.location[Len(response.location)])
         ELSE None
    ELSE None

RequestFunctions == {"get_orders", "get_today_orders", "send_orders"}

Request ==
    /\ \E function \in RequestFunctions, response \in HttpResponses :
          req' = [function |-> function, response |-> response,
                  returned |-> CASE function = "get_orders"
                                      -> lookup_returns(response, "dict")
                                 [] function = "get_today_orders"
                                      -> lookup_returns(response, "list")
                                 [] OTHER -> post_returns(response)]
    /\ UNCHANGED <<active_positions, nextOrderId, calls, last, df_dict, pc,
                   resubscribed, bar, seen, handlers, sup, agg, tok, sched>>

NextRequest == Request

SpecRequest == Init /\ [][NextRequest]_vars

---------------------------------------------------------------------------
\* One strategy on a stream that delivers one bar for every minute, with
\* its latch and the two tests of on_bar; the buffer is not seeded and only
\* its length, up to the time frame, is kept.

\* the minutes of a day; bar timestamps are minutes from midnight
DayMinutes == 0 .. 1439

\* the time frames of the strategy: divisors of 60, 7 and 45, and time
\* frames above 60
ScheduleTimeFrames == {1, 2, 5, 7, 45, 60, 61, 90}

\* the minutes before the first bar of the stream
StreamStarts == {1439, 29, 59}

\* The start of the resample bucket of a bar: the buckets of rule
\* "<aggregation>min" are counted from midnight.
BucketStart(ts, aggregation) == (ts \div aggregation) * aggregation

InitSchedule ==
    /\ active_positions = <<>>
    /\ nextOrderId = 1
    /\ calls = <<>>
    /\ last = NoCycle
    /\ df_dict = <<>>
    /\ pc = "exited"
    /\ resubscribed = FALSE
    /\ bar = [datetime |-> 0, symbol |-> ""]
    /\ seen = <<>>
    /\ handlers = 0
    /\ sup = [event |-> "none"]
    /\ agg = NoAggregation
    /\ tok = NoRefresh
    /\ req = NoRequest
    /\ \E time_frame \in ScheduleTimeFrames, ts \in StreamStarts :
          sched = [NoSchedule EXCEPT !.time_frame = time_frame, !.ts = ts]

\* on_bar for the bar of the next minute: the itsTime check, the append,
\* the test of an empty aggregated frame and the test that lets the
\* strategy function be called.
MinuteBar ==
    /\ LET ts == (sched.ts + 1) % Cardinality(DayMinutes)
           bar_min == MinuteOf(ts)
           itsTime == latch(sched.itsTime, bar_min, sched.time_frame)
           rows == IF ~itsTime \/ sched.rows = sched.time_frame
                   THEN sched.rows ELSE sched.rows + 1
       IN sched' = [sched EXCEPT
                       !.ts = ts,
                       !.itsTime = itsTime,
                       !.rows = rows,
                       !.latched = itsTime /\ ~sched.itsTime,
                       !.evaluated = /\ itsTime
                                     /\ rows >= sched.time_frame
                                     /\ should_evaluate(bar_min, sched.time_frame)]
    /\ UNCHANGED <<active_positions, nextOrderId, calls, last, df_dict, pc,
                   resubscribed, bar, seen, handlers, sup, agg, tok, req>>

NextSchedule == MinuteBar

SpecSchedule == InitSchedule /\ [][NextSchedule]_vars

\* The stream keeps delivering.
SpecScheduleFair == SpecSchedule /\ WF_vars(MinuteBar)

\* The same stream with the buffer kept: the time frame divides 60, the
\* history, when there is one, ends with the minute before the first bar.
BufferedTimeFrames == {1, 2, 3, 4}

\* charles_get_candles: the two minutes up to ts, or nothing
Histories(ts) == {<<>>, <<LiveBar("SPY", ts - 1), LiveBar("SPY", ts)>>}

InitBuffered ==
    /\ active_positions = <<>>
    /\ nextOrderId = 1
    /\ calls = <<>>
    /\ last = NoCycle
    /\ df_dict = <<>>
    /\ pc = "exited"
    /\ resubscribed = FALSE
    /\ bar = [datetime |-> 0, symbol |-> ""]
    /\ seen = <<>>
    /\ handlers = 0
    /\ sup = [event |-> "none"]
    /\ agg = NoAggregation
    /\ tok = NoRefresh
    /\ req = NoRequest
    /\ \E time_frame \in BufferedTimeFrames, ts \in {57, 58, 59} :
         \E historical_df \in Histories(ts) :
          sched = [NoSchedule EXCEPT !.time_frame = time_frame, !.ts = ts,
                                     !.df = historical_df]

\* on_bar for the bar of the next minute, for one strategy: the itsTime
\* check, the append, the aggregation, and the test that lets the strategy
\* function be called with the aggregated frame.  rows counts the bars
\* delivered.
MinuteBarBuffered ==
    /\ sched.rows < MaxBars
    /\ LET ts == sched.ts + 1
           bar_min == MinuteOf(ts)
           time_frame == sched.time_frame
           itsTime == latch(sched.itsTime, bar_min, time_frame)
           df == IF itsTime THEN sort_index_concat(sched.df, LiveBar("SPY", ts))
                 ELSE sched.df
           candles == IF time_frame = 1 THEN df
                      ELSE aggregate_time_frame(df, time_frame)
           evaluated == /\ itsTime
                        /\ candles # <<>>
                        /\ should_evaluate(bar_min, time_frame)
       IN sched' = [sched EXCEPT
                       !.ts = ts,
                       !.itsTime = itsTime,
                       !.rows = @ + 1,
                       !.latched = itsTime /\ ~sched.itsTime,
                       !.evaluated = evaluated,
                       !.df = df,
                       !.candles = IF evaluated THEN candles ELSE <<>>]
    /\ UNCHANGED <<active_positions, nextOrderId, calls, last, df_dict, pc,
                   resubscribed, bar, seen, handlers, sup, agg, tok, req>>

NextBuffered == MinuteBarBuffered

SpecBuffered == InitBuffered /\ [][NextBuffered]_vars


---------------------------------------------------------------------------
\* Properties of the order lifecycle.  `last` and `calls` describe the
\* cycle that led to the current state.

CallsWhere(P(_)) == {i \in DOMAIN calls : P(calls[i])}

IsPost(c) == c.op = "post"
IsAccepted(c) == c.op = "post" /\ c.outcome = "created"
IsRefused(c) == c.op = "post" /\ c.outcome # "created"
IsDbInsert(c) == c.op = "db_insert"
IsDbDelete(c) == c.op = "db_delete"
DbRaised(c) == c.outcome = "raised"
IsGet(c) == c.op = "get"

\* The database answered every call of the cycle.
DbAvailable == CallsWhere(DbRaised) = {}

SellCycle == last.instruction = "SELL" /\ last.result = "SELL completed"

\* The cycle was asked for a symbol and a positive quantity.
ValidRequest == last.symbol # "" /\ last.quantity > 0
BuyCycle == last.instruction = "BUY"

\* C1: after a SELL cycle for strategy id S (a valid request, the database
\* answering), the table holds no row of S.
SellLeavesNoRows ==
    (SellCycle /\ ValidRequest /\ DbAvailable)
        => RowsOf(active_positions, last.strategy_id) = <<>>

\* C2: a SELL cycle whose listing of the order ids succeeded always goes on
\* to delete the rows of the strategy, whatever happened for each order id.
SellAlwaysDeletes ==
    (SellCycle /\ CallsWhere(LAMBDA c : c.op = "db_list" /\ c.outcome = "ok") # {})
        => CallsWhere(IsDbDelete) # {}

\* C3: a BUY cycle adds as many rows as the brokerage accepted orders.
BuyAddsRowPerAcceptedOrder ==
    BuyCycle =>
        Len(active_positions) - Len(last.table_before)
            = Cardinality(CallsWhere(IsAccepted))

\* C4: a BUY whose placement returned no order id leaves the table as it
\* was, returns None and has made exactly one placement attempt.
BuyFailureLeavesRows ==
    (BuyCycle /\ CallsWhere(IsRefused) # {})
        => /\ active_positions = last.table_before
           /\ last.result = "None"
           /\ Cardinality(CallsWhere(IsPost)) = 1
           /\ CallsWhere(IsDbInsert) = {}

\* C4 witness: a refused (timed out) BUY of a strategy that holds a row.
BuyFailureSeen ==
    /\ BuyCycle
    /\ CallsWhere(LAMBDA c : c.op = "post" /\ c.outcome = "timeout") # {}
    /\ RowsOf(last.table_before, last.strategy_id) # <<>>

\* The price field send_orders puts in the payload for a requested price.
PayloadPrice(price) == IF round_price(price) > 0 THEN round_price(price) ELSE -1

SellsFor(order_id) == CallsWhere(LAMBDA c : c.op = "post" /\ c.src = order_id)
CancelsFor(order_id) == CallsWhere(LAMBDA c : c.op = "cancel" /\ c.order_id = order_id)

---------------------------------------------------------------------------
\* Properties of the stream.

\* A step in which handle_message delivered a bar message.
Delivered == sup'.event = "bar"

TimeFrameOf(s) == strategy_info[s].time_frame

HasTimestamp(df, ts) == \E i \in DOMAIN df : df[i].datetime = ts

\* C6: while a strategy's itsTime latch is not set, the bar just handled
\* caused no aggregation, no evaluation and no order for it, and the
\* strategy has no order on record, whatever its buffer holds.
UnlatchedNeverEvaluates ==
    \A s \in DOMAIN df_dict :
        ~df_dict[s].itsTime =>
            /\ ~seen[s].aggregated
            /\ ~seen[s].evaluated
            /\ ~seen[s].ordered
            /\ RowsOf(active_positions, s) = <<>>
            /\ last.strategy_id # s

\* A bar for an unlatched strategy whose seeded buffer already holds a full
\* time frame, at a minute on which a latched strategy would be evaluated.
UnlatchedBarSeen ==
    \E s \in DOMAIN df_dict :
        /\ ~df_dict[s].itsTime
        /\ seen[s].matched
        /\ Len(df_dict[s].df) >= TimeFrameOf(s)
        /\ should_evaluate(MinuteOf(bar.datetime), TimeFrameOf(s))

\* C7: a latch that is set stays set in every step: bars, strategy errors,
\* order failures, reconnects and the exit leave it set.
LatchNeverResets ==
    [][\A s \in DOMAIN df_dict : df_dict[s].itsTime => df_dict'[s].itsTime]_vars

\* A latched strategy after a reconnect, handling a bar off the boundary
\* whose order the brokerage did not accept.
LatchedAfterReconnect ==
    \E s \in DOMAIN df_dict :
        /\ df_dict[s].itsTime
        /\ resubscribed
        /\ seen[s].matched
        /\ ~its_time(MinuteOf(bar.datetime), TimeFrameOf(s))
        /\ seen[s].ordered
        /\ last.result = "None"

\* C8: a bar for a strategy's symbol that arrives while the latch is unset,
\* at a minute that is not a multiple of the time frame, is appended to the
\* buffer, without aggregation or evaluation.
UnlatchedBarBuffered ==
    [][\A s \in DOMAIN df_dict :
          (/\ Delivered
           /\ strategy_info[s].symbol = bar'.symbol
           /\ ~df_dict[s].itsTime
           /\ ~its_time(MinuteOf(bar'.datetime), TimeFrameOf(s)))
          => /\ df_dict'[s].df = sort_index_concat(df_dict[s].df, bar')
             /\ ~seen'[s].aggregated
             /\ ~seen'[s].evaluated]_vars

\* C9: a strategy is evaluated, and an order placed for it, only on a bar
\* with (minute + 1) a multiple of its time frame; the delay of one minute
\* is the same for every strategy.
EvaluatedOneMinuteBeforeBoundary ==
    \A s \in DOMAIN df_dict :
        (seen[s].evaluated \/ seen[s].ordered)
            => /\ df_dict[s].itsTime
               /\ (MinuteOf(bar.datetime) + 1) % TimeFrameOf(s) = 0

\* A latched strategy with a time frame above one minute evaluated on a bar
\* and an order placed for it.
EvaluatedAndOrdered ==
    \E s \in DOMAIN df_dict :
        /\ TimeFrameOf(s) > 1
        /\ df_dict[s].itsTime
        /\ seen[s].evaluated
        /\ seen[s].ordered
        /\ last.strategy_id = s

\* C10: a delivered bar whose timestamp is already in a strategy's buffer
\* leaves the buffer as it was.
RedeliveryIdempotent ==
    [][\A s \in DOMAIN df_dict :
          (/\ Delivered
           /\ strategy_info[s].symbol = bar'.symbol
           /\ HasTimestamp(df_dict[s].df, bar'.datetime))
          => df_dict'[s].df = df_dict[s].df]_vars

\* C11: every buffer is in strictly ascending order of its timestamps, so
\* no two of its bars share a timestamp.
BufferStrictlyAscending ==
    \A s \in DOMAIN df_dict :
        \A i \in 1 .. Len(df_dict[s].df) - 1 :
            df_dict[s].df[i].datetime < df_dict[s].df[i + 1].datetime

\* The process with strategy s as its only strategy.
Alone(s) ==
    [BarState EXCEPT !.df_dict = (s :> df_dict[s]),
                     !.seen = (s :> BarState.seen[s])]

\* What n runs of on_bar leave of it when the function gives no signal.
RECURSIVE RunsAlone(_, _, _)
RunsAlone(st, item, n) ==
    IF n = 0 THEN st ELSE RunsAlone(on_bar(st, item, <<>>), item, n - 1)

\* C12: a bar changes the buffer and the latch of the strategies of its
\* symbol only, and leaves each of them with the buffer, the latch and the
\* evaluations it would have were it the only strategy.
StrategiesIsolated ==
    [][Delivered =>
          \A s \in DOMAIN df_dict :
             /\ strategy_info[s].symbol # bar'.symbol => df_dict'[s] = df_dict[s]
             /\ LET alone == RunsAlone(Alone(s), bar', handlers)
                IN /\ alone.df_dict[s] = df_dict'[s]
                   /\ alone.seen[s].evaluated = seen'[s].evaluated
                   /\ Len(alone.seen[s].evals) = Len(seen'[s].evals)]_vars

Raised(s) == \E i \in DOMAIN seen[s].evals : seen[s].evals[i].raises

\* A bar on which the function of strategy 1 raised, or its order was not
\* accepted, while strategy 3 of the same symbol took the bar in and
\* strategy 2 of the other symbol was left alone.
IsolatedFromFailure ==
    /\ sup.event = "bar"
    /\ Raised(1) \/ (seen[1].ordered /\ last.strategy_id = 1 /\ last.result = "None")
    /\ seen[3].appended
    /\ ~seen[2].matched

\* C13: for one bar message at most one send_strategy_orders call is made
\* for a strategy.
OneOrderCallPerBar ==
    \A s \in DOMAIN df_dict : seen[s].orders <= 1

\* C14: an abnormal closure ends the process: exit without a login, and an
\* exited process takes no step.
AbnormalClosureIsFatal ==
    [][/\ pc # "exited"
       /\ sup'.event = "closed_abnormal"
             => /\ pc' = "exited"
                /\ sup'.logins = 0
                /\ sup'.symbols = {}]_vars

\* The process exited on an abnormal closure after it had resubscribed and
\* had handled a bar.
ExitedAfterAbnormalClosure ==
    /\ pc = "exited"
    /\ sup.event = "closed_abnormal"
    /\ resubscribed
    /\ bar.symbol # ""

\* C15: the handler of a normal closure makes one login attempt, and a
\* resubscribe that succeeds is to all symbols, before the loop receives
\* again.
OneResubscribePerClosure ==
    sup.event = "closed_ok"
        => /\ sup.logins = 1
           /\ pc \in {"receiving", "unsubscribed"}
           /\ pc = "receiving" => sup.symbols = list_symbols

\* A normal closure whose one attempt failed, and one whose attempt
\* succeeded before.
ResubscribeFailedAfterSuccess ==
    /\ sup.event = "closed_ok"
    /\ pc = "unsubscribed"
    /\ resubscribed

\* C16: a failed resubscribe is repeated until one succeeds, so the loop
\* never receives with its last resubscribe failed.
ResubscribeRetriedUntilSuccess ==
    pc # "unsubscribed"

RECURSIVE Appended(_, _, _)
Appended(df, item, n) ==
    IF n = 0 THEN df ELSE Appended(sort_index_concat(df, item), item, n - 1)

\* the evaluations that called send_strategy_orders
OrderingEvals(evals) ==
    {i \in DOMAIN evals : ~evals[i].raises /\ evals[i].signal \notin {"", "NaN"}}

\* C17: when the function of a strategy raises, that evaluation places no
\* order, the buffer holds the delivered bar and the latch is set, the
\* other strategies of the symbol are processed and the loop goes on
\* receiving.
StrategyErrorContained ==
    [][Delivered =>
          \A s \in DOMAIN df_dict :
             (\E i \in DOMAIN seen'[s].evals : seen'[s].evals[i].raises)
             => /\ seen'[s].orders = Cardinality(OrderingEvals(seen'[s].evals))
                /\ df_dict'[s].df = Appended(df_dict[s].df, bar', handlers)
                /\ df_dict'[s].itsTime
                /\ \A t \in DOMAIN df_dict :
                      strategy_info[t].symbol = bar'.symbol
                      => /\ seen'[t].matched
                         /\ df_dict'[t].itsTime => seen'[t].appended
                /\ pc' = "receiving"]_vars

\* A bar on which the function of strategy 1 raised and no order was
\* placed, and which strategy 3, later in df_dict, took in.
StrategyErrorSeen ==
    /\ sup.event = "bar"
    /\ Raised(1)
    /\ seen[1].orders = 0
    /\ seen[3].appended
    /\ pc = "receiving"

\* C18: a run with a strategy name that has no function fails at startup:
\* no bar is processed and no lookup fails during an evaluation.
UnresolvedNameStopsStartup ==
    (\E s \in DOMAIN strategy_info : strategy_info[s].name \notin STRATEGY_CACHE)
        => /\ sup.event # "bar"
           /\ \A s \in DOMAIN df_dict : ~seen[s].deferred

AllEvals(P(_)) ==
    /\ \E s \in DOMAIN df_dict : seen'[s].evals # <<>>
    /\ \A s \in DOMAIN df_dict :
          \A i \in DOMAIN seen'[s].evals : P(seen'[s].evals[i])

IsNull(e) == ~e.raises /\ e.signal \in {"", "NaN"}
IsNone(e) == ~e.raises /\ e.signal = "NONE"

\* C19: a bar whose evaluations end in a last row with no signal (None,
\* missing or NaN) starts no order cycle: no brokerage call, no change of
\* the positions, whatever the rows before the last hold; and "NONE" on the
\* last row makes no brokerage call and no change of the positions either.
NullSignalPlacesNoOrder ==
    [][/\ (Delivered /\ AllEvals(IsNull))
          => /\ active_positions' = active_positions
             /\ nextOrderId' = nextOrderId
             /\ calls' = calls
             /\ last' = last
       /\ (Delivered /\ AllEvals(IsNone))
          => /\ active_positions' = active_positions
             /\ nextOrderId' = nextOrderId
             /\ calls' = <<>>]_vars

\* A strategy holding a position evaluated to a last row without a signal
\* under a row with BUY.
NullUnderEarlierSignal ==
    \E s \in DOMAIN df_dict :
        /\ sup.event = "bar"
        /\ RowsOf(active_positions, s) # <<>>
        /\ seen[s].orders = 0
        /\ \E i \in DOMAIN seen[s].evals :
              /\ seen[s].evals[i].signal = ""
              /\ seen[s].evals[i].earlier = "BUY"

---------------------------------------------------------------------------
\* Properties of the aggregation.

\* the rows of df in the bucket that starts at minute start
InBucket(df, start, T) ==
    {i \in DOMAIN df : start <= df[i].datetime /\ df[i].datetime < start + T}

\* every minute of the bucket has its bar
FullyPopulated(df, start, T) ==
    \A m \in start .. start + T - 1 : \E i \in DOMAIN df : df[i].datetime = m

RECURSIVE VolumeOver(_, _)
VolumeOver(df, I) ==
    IF I = {} THEN 0
    ELSE LET i == CHOOSE x \in I : TRUE
         IN df[i].volume + VolumeOver(df, I \ {i})

\* C20: an aggregated bar of a fully populated bucket has the open of the
\* bucket's first bar, the highest high, the lowest low, the close of its
\* last bar and the sum of the volumes; ten bars i/(i+1)/i/(i+1) with
\* volume 100 aggregated to 5 minutes give two bars, the first 0/5/0/5 with
\* volume 500.
AggregatedBarCorrect ==
    /\ \A k \in DOMAIN agg.out :
          LET row == agg.out[k]
              I == InBucket(agg.df, row.datetime, agg.aggregation)
          IN FullyPopulated(agg.df, row.datetime, agg.aggregation)
             => /\ \E i \in I : /\ \A j \in I : agg.df[i].datetime <= agg.df[j].datetime
                               /\ row.open = agg.df[i].open
                /\ \E i \in I : /\ \A j \in I : agg.df[j].datetime <= agg.df[i].datetime
                               /\ row.close = agg.df[i].close
                /\ \E i \in I : row.high = agg.df[i].high
                /\ \A i \in I : agg.df[i].high <= row.high
                /\ \E i \in I : row.low = agg.df[i].low
                /\ \A i \in I : row.low <= agg.df[i].low
                /\ row.volume = VolumeOver(agg.df, I)
    /\ (/\ agg.result = "returned"
        /\ agg.df = create_sample_df(TestMinutes)
        /\ agg.aggregation = TestAggregation)
          => /\ Len(agg.out) = 2
             /\ agg.out[1].open = 0
             /\ agg.out[1].high = 5
             /\ agg.out[1].low = 0
             /\ agg.out[1].close = 5
             /\ agg.out[1].volume = 500

\* A falling series aggregated to more than a minute with a fully
\* populated bucket: its highest high is not the high of its last bar.
FallingBucketAggregated ==
    /\ agg.aggregation > 1
    /\ \E k \in DOMAIN agg.out :
          /\ FullyPopulated(agg.df, agg.out[k].datetime, agg.aggregation)
          /\ \E i \in InBucket(agg.df, agg.out[k].datetime, agg.aggregation) :
                agg.df[i].high < agg.out[k].high

\* The call had a frame with a datetime index and the required columns, and
\* a positive aggregation.
WellFormed ==
    /\ agg.columns = RequiredColumns
    /\ agg.datetime_index
    /\ agg.aggregation > 0

\* C21: a well-formed frame with fewer bars than the aggregation gives the
\* empty frame and no error.
TooFewBarsGiveEmpty ==
    (agg.result # "" /\ WellFormed /\ Len(agg.df) < agg.aggregation)
        => agg.result = "returned" /\ agg.out = <<>>

\* A well-formed frame of two bars or more, of which the first two are of
\* the same bucket, aggregated to more minutes than it has bars.
TooFewBarsSeen ==
    /\ agg.result = "returned"
    /\ WellFormed
    /\ Len(agg.df) >= 2
    /\ Len(agg.df) < agg.aggregation
    /\ agg.df[1].datetime \div agg.aggregation = agg.df[2].datetime \div agg.aggregation

\* C22: every aggregated bar is built from a bar of each minute of its
\* bucket: a bucket with a missing minute is not emitted.
OnlyFullBucketsEmitted ==
    \A k \in DOMAIN agg.out :
        /\ FullyPopulated(agg.df, agg.out[k].datetime, agg.aggregation)
        /\ Cardinality(InBucket(agg.df, agg.out[k].datetime, agg.aggregation))
              = agg.aggregation

\* C23: a call with an aggregation that is not positive, or with a frame
\* that lacks a required column, raises, whatever the number of rows.
InvalidInputRaises ==
    (agg.result # "" /\ (agg.aggregation <= 0 \/ RequiredColumns \ agg.columns # {}))
        => agg.result = "ValueError"

---------------------------------------------------------------------------
\* Credentials and network calls.

\* C24: a credential value the bar path reads, the access token of .env
\* before an order call or the content of token.json when the stream client
\* is created, is a complete value written by one refresh.
CredentialReadComplete ==
    /\ tok.read.source = "token.json" => tok.read.value \in tok.written
    /\ tok.read.source = ".env"
          => /\ Len(tok.read.value) = 1
             /\ tok.read.value[1] \in 1 .. tok.issued

\* C29: every network call in flight carries a timeout.
EveryRequestHasTimeout ==
    tok.pc = "requesting" => tok.request.timeout # NoTimeout

\* the token request returns in this step
Responded == tok.pc = "requesting" /\ tok'.pc # "requesting"

\* C30: when the token endpoint refuses or the request fails,
\* get_new_access_token returns None with the old refresh token and the
\* refresher leaves .env, token.json and its own refresh token as they
\* were; on 200 it returns the new access token and the new refresh token;
\* .env and token.json change only after a successful refresh.
FailedRefreshTouchesNothing ==
    [][/\ Responded
          => IF tok'.response.status = "200"
             THEN /\ tok'.returned.access_token = tok'.response.access_token
                  /\ tok'.returned.access_token # NoToken
                  /\ tok'.response.refresh_token # NoToken
                        => tok'.returned.refresh_token = tok'.response.refresh_token
             ELSE /\ tok'.returned = [access_token |-> NoToken,
                                      refresh_token |-> tok.request.refresh_token]
                  /\ tok'.env = tok.env
                  /\ tok'.token_json = tok.token_json
                  /\ tok'.token_dict = tok.token_dict
                  /\ tok'.pc \in {"next", "sleeping", "returned_once"}
       /\ (tok'.env # tok.env \/ tok'.token_json # tok.token_json)
          => /\ tok.response.status = "200"
             /\ tok.returned.access_token # NoToken
      ]_vars

\* The TRADING refresh has failed after an earlier one had succeeded and
\* had been stored.
RefreshFailedAfterSuccess ==
    /\ tok.request.token_type = "TRADING"
    /\ tok.response.status \in {"400", "RequestException"}
    /\ tok.pc = "next"
    /\ tok.returned.access_token = NoToken
    /\ tok.env["TRADING"].ACCESS_TOKEN > 1
    /\ tok.token_json = <<tok.env["TRADING"].REFRESH_TOKEN,
                          tok.env["TRADING"].ACCESS_TOKEN>>

---------------------------------------------------------------------------
\* Order requests: validation, rounding, order type.

\* a call that goes to the brokerage
IsNetwork(c) == c.op \in {"post", "get", "cancel"}

\* C25: a BUY or SELL request with an empty symbol or a quantity <= 0 fails
\* with ValueError before any brokerage call and leaves the table as it was.
InvalidRequestFailsFast ==
    (/\ last.instruction \in {"BUY", "SELL"}
     /\ (last.symbol = "" \/ last.quantity <= 0))
        => /\ last.result = "ValueError"
           /\ \A i \in DOMAIN calls : ~IsNetwork(calls[i])
           /\ active_positions = last.table_before

\* C26: send_strategy_orders with an instruction that is neither BUY nor
\* SELL in any case raises ValueError, makes no call and leaves the table as
\* it was.
InvalidInstructionRaises ==
    (last.result # "" /\ last.instruction \notin {"BUY", "SELL"})
        => /\ last.result = "ValueError"
           /\ calls = <<>>
           /\ active_positions = last.table_before

\* HOLD was asked of a strategy that has a tracked order.
InvalidInstructionSeen ==
    /\ last.instruction = "HOLD"
    /\ last.result = "ValueError"
    /\ \E i \in DOMAIN active_positions :
          active_positions[i].strategy_id = last.strategy_id

\* the step of round_price at a price: 4 decimals below a dollar, 2 from it
PriceStep(p) ==
    IF p < PriceScale THEN PriceScale \div 10000 ELSE PriceScale \div 100

\* the price sent with an order; 0 when the order has no price field
SentPrice(c) == IF c.price = -1 THEN 0 ELSE c.price

\* C27: the price of every order sent is the requested price rounded to 4
\* decimals below 1.0 and to 2 decimals from 1.0: 0.12345 goes out as
\* 0.1235, 12.345 as 12.35, and 0 stays 0.
OutboundPriceRounded ==
    \A i \in DOMAIN calls :
        calls[i].op = "post"
            => /\ SentPrice(calls[i]) % PriceStep(last.price) = 0
               /\ 2 * (SentPrice(calls[i]) - last.price) <= PriceStep(last.price)
               /\ 2 * (last.price - SentPrice(calls[i])) <= PriceStep(last.price)
               /\ last.price = 12345 => SentPrice(calls[i]) = 12350
               /\ last.price = 1234500 => SentPrice(calls[i]) = 1235000
               /\ last.price = 0 => SentPrice(calls[i]) = 0

\* A closing SELL went out at 12.35 for a request at 12.345, after a BUY of
\* the strategy at 0.1235.
HalfwayPricesSent ==
    /\ last.price = 1234500
    /\ \E i \in DOMAIN calls :
          /\ calls[i].op = "post"
          /\ calls[i].instruction = "SELL"
          /\ calls[i].price = 1235000
    /\ \E i \in DOMAIN last.table_before :
          last.table_before[i].entry_price = 12350

\* every strategy on the symbol is a MARKET strategy
OnlyMarketStrategies(symbol) ==
    \A s \in DOMAIN strategy_info :
        strategy_info[s].symbol = symbol
            => strategy_info[s].order_type = "MARKET"

\* C28: a MARKET strategy asks price 0 whatever the last close is, and an
\* order asked at price 0 goes out as a MARKET order without a price field,
\* BUY or SELL, at any quantity.
MarketOrderHasNoPrice ==
    last.result # ""
        => /\ strategy_info[last.strategy_id].order_type = "MARKET"
                 => last.price = 0
           /\ (last.price = 0 /\ OnlyMarketStrategies(last.symbol))
                 => \A i \in DOMAIN calls :
                        calls[i].op = "post"
                            => /\ calls[i].type = "MARKET"
                               /\ calls[i].price = -1

\* A MARKET strategy has closed a filled order with a SELL of the filled
\* quantity on a bar whose close is not 0.
MarketOrdersSent ==
    /\ last.result = "SELL completed"
    /\ strategy_info[last.strategy_id].order_type = "MARKET"
    /\ bar.symbol = last.symbol
    /\ bar.close # 0
    /\ \E i \in DOMAIN calls :
          /\ calls[i].op = "post"
          /\ calls[i].instruction = "SELL"
          /\ calls[i].quantity # last.quantity
          /\ calls[i].type = "MARKET"

---------------------------------------------------------------------------
\* The request functions.

PostReturnsOrderId ==
    req.function = "send_orders"
        => /\ req.returned.raised = ""
           /\ IF /\ req.response.raises = ""
                 /\ req.response.status_code = 201
                 /\ req.response.location # <<>>
              THEN req.returned.value
                      = <<req.response.location[Len(req.response.location)]>>
              ELSE req.returned.value = <<>>

\* The answer 201 with Location /orders/12345 gave the order id 12345.
OrderIdReturned ==
    /\ req.function = "send_orders"
    /\ req.response.status_code = 201
    /\ req.response.location = <<"", "orders", "12345">>
    /\ req.returned.value = <<"12345">>

---------------------------------------------------------------------------
\* The schedule of the latch and of the evaluation.

\* C33: the bar that lets the strategy be evaluated is the last minute of a
\* resample bucket and the bar that sets the latch is the first minute of
\* one, for every time frame.
ScheduleMatchesBuckets ==
    /\ sched.evaluated
          => sched.ts = BucketStart(sched.ts, sched.time_frame)
                           + sched.time_frame - 1
    /\ sched.latched => sched.ts = BucketStart(sched.ts, sched.time_frame)

\* C34: on a stream of one bar per minute the latch of a strategy is set at
\* some bar, and the strategy is evaluated again and again.
EvaluatedAgainAndAgain ==
    /\ <>sched.itsTime
    /\ []<>sched.evaluated

\* the rows of df at the minutes from..to
RowsAt(df, from, to) ==
    SelectSeq(df, LAMBDA x : from <= x.datetime /\ x.datetime <= to)

PositivePriceIsLimit ==
    \A i \in DOMAIN calls :
        calls[i].op = "post"
            => /\ last.price > 0
                     => (calls[i].type = "LIMIT" /\ calls[i].price > 0)
               /\ calls[i].type = "LIMIT" => calls[i].price # -1

\* a SELL order placed for a tracked order
IsSale(c) == c.op = "post" /\ c.instruction = "SELL"

\* C37: a tracked order for which a SELL cycle has placed a sell order is
\* not sold again by the next cycle, whether the earlier cycle ended with
\* an error or not.
NeverSoldTwice ==
    [][\A i \in DOMAIN calls, j \in DOMAIN calls' :
          ~(/\ IsSale(calls[i])
            /\ calls[i].outcome = "created"
            /\ IsSale(calls'[j])
            /\ calls'[j].src = calls[i].src)]_vars

\* the order ids recorded for the strategy of the cycle when it began
OwnOrderIds ==
    {last.table_before[i].order_id :
        i \in {k \in DOMAIN last.table_before :
                  last.table_before[k].strategy_id = last.strategy_id}}

\* C38: a cycle for a strategy leaves the rows of every other strategy as
\* they were, and a SELL cycle looks up, sells and cancels only orders
\* recorded for its strategy.
OtherStrategiesUntouched ==
    last.result # ""
        => /\ RowsNotOf(active_positions, last.strategy_id)
                 = RowsNotOf(last.table_before, last.strategy_id)
           /\ \A i \in DOMAIN calls :
                 /\ calls[i].op \in {"get", "cancel"}
                       => calls[i].order_id \in OwnOrderIds
                 /\ IsSale(calls[i]) => calls[i].src \in OwnOrderIds

\* A SELL cycle has sold a filled order of its strategy and deleted its
\* row while another strategy has a row.
SoldBesideOtherStrategy ==
    /\ last.instruction = "SELL"
    /\ RowsOf(last.table_before, last.strategy_id) # <<>>
    /\ RowsOf(active_positions, last.strategy_id) = <<>>
    /\ RowsNotOf(active_positions, last.strategy_id) # <<>>
    /\ \E i \in DOMAIN calls : IsSale(calls[i])

\* C39: every token request, of refresh_tokens_once and of the loop,
\* presents the refresh token the last successful refresh of its token type
\* returned, or the configured one when none has succeeded.
RequestPresentsLatestToken ==
    tok.pc = "requesting"
        => tok.request.refresh_token = tok.latest[tok.request.token_type]

\* C40: while the stream is subscribed and bars are processed, every
\* configured strategy id has its runtime state in df_dict: a fetch that
\* failed in _initial_df leaves neither its strategy nor a later one
\* without it.
EveryStrategyHasState ==
    (pc = "receiving" /\ bar.symbol \in list_symbols)
        => \A s \in DOMAIN strategy_info : s \in DOMAIN df_dict

====
